---- MODULE Spec2Model ----
(***************************************************************************)
(* A model of src/automation/task-scheduler.py: the TaskScheduler class,   *)
(* the __main__ script around it, and the parts of the `schedule` library  *)
(* (Job.at, Job.do, Job._schedule_next_run, Job.run, Scheduler.run_pending)*)
(* that the class calls.                                                   *)
(*                                                                         *)
(* Time is the wall clock read by datetime.now(), in whole seconds since   *)
(* a Monday 00:00:00.  Python strings that the code parses (schedule_time) *)
(* are sequences of one-character strings; strings that are only stored    *)
(* and compared (name, command, schedule_type) are TLA+ strings.           *)
(***************************************************************************)
EXTENDS Integers, Sequences, FiniteSets, TLC

VARIABLES
    file,     \* the content of tasks.json (config_file)
    tasks,    \* self.tasks: the in-memory task list
    jobs,     \* schedule.jobs: the library's process-wide job list
    now,      \* the wall clock, seconds
    pc,       \* where the process is
    mode,     \* "script" (python task-scheduler.py) or "api" (class used by a caller)
    err,      \* the exception last raised to the caller / top level, "" if none
    exit,     \* process exit status once it ended: -1 while alive
    pend,     \* run_pending: the sorted runnable jobs not yet run in this tick
    fired,    \* history: the firings of the current tick, in order
    execd,    \* history: indices of the tasks whose command was ever started
    call,     \* history: the add_task call last made, its arguments and the file before it
    cur,      \* the index in self.tasks of the task being added or scheduled
    adds,     \* number of add_task calls so far
    fires,    \* number of commands started so far
    ticks     \* number of run_pending calls so far

vars == <<file, tasks, jobs, now, pc, mode, err, exit, pend, fired, execd, call, cur, adds, fires, ticks>>

(***************************************************************************)
(* Bounds of the model.                                                    *)
(***************************************************************************)
MaxAdds == 2       \* add_task calls
MaxTicks == 3      \* run_pending calls
MaxFires == 3      \* commands started

(***************************************************************************)
(* Strings as character sequences.                                         *)
(***************************************************************************)
Digits == <<"0", "1", "2", "3", "4", "5", "6", "7", "8", "9">>

IsDigit(c) == \E i \in 1..10 : Digits[i] = c

DigitVal(c) == (CHOOSE i \in 1..10 : Digits[i] = c) - 1

UpperCase == <<"A","B","C","D","E","F","G","H","I","J","K","L","M",
               "N","O","P","Q","R","S","T","U","V","W","X","Y","Z">>

LowerCase == <<"a","b","c","d","e","f","g","h","i","j","k","l","m",
               "n","o","p","q","r","s","t","u","v","w","x","y","z">>

\* str.lower(), one character
LowerChar(c) ==
    IF \E i \in 1..26 : UpperCase[i] = c
    THEN LowerCase[CHOOSE i \in 1..26 : UpperCase[i] = c]
    ELSE c

\* str.lower()
Lower(s) == [i \in 1..Len(s) |-> LowerChar(s[i])]

RECURSIVE DecVal(_)
\* the value of a string of decimal digits
DecVal(s) ==
    IF s = <<>> THEN 0
    ELSE 10 * DecVal(SubSeq(s, 1, Len(s) - 1)) + DigitVal(s[Len(s)])

AllDigits(s) == Len(s) >= 1 /\ \A i \in 1..Len(s) : IsDigit(s[i])

\* int(s): [ok, val]; ok = FALSE is ValueError.  An optional sign, then digits.
PyInt(s) ==
    IF Len(s) >= 1 /\ s[1] \in {"+", "-"}
    THEN IF AllDigits(Tail(s))
         THEN [ok |-> TRUE, val |-> IF s[1] = "-" THEN 0 - DecVal(Tail(s)) ELSE DecVal(Tail(s))]
         ELSE [ok |-> FALSE, val |-> 0]
    ELSE IF AllDigits(s)
         THEN [ok |-> TRUE, val |-> DecVal(s)]
         ELSE [ok |-> FALSE, val |-> 0]

RECURSIVE SplitOn(_, _)
\* s.split(sep) for a one-character sep: the fields between the separators
SplitOn(s, sep) ==
    IF \A i \in 1..Len(s) : s[i] # sep THEN <<s>>
    ELSE LET k == CHOOSE i \in 1..Len(s) : s[i] = sep /\ \A j \in 1..(i - 1) : s[j] # sep
         IN  <<SubSeq(s, 1, k - 1)>> \o SplitOn(SubSeq(s, k + 1, Len(s)), sep)

\* s.split(): the fields between runs of blanks, no empty fields
SplitBlank(s) == SelectSeq(SplitOn(s, " "), LAMBDA f : f # <<>>)

(***************************************************************************)
(* schedule.Job.at: validation and parsing of the time string.             *)
(***************************************************************************)
In05(c) == c \in {"0", "1", "2", "3", "4", "5"}

In02(c) == c \in {"0", "1", "2"}

\* ^[0-2]\d:[0-5]\d(:[0-5]\d)?$
MatchDaily(s) ==
    /\ Len(s) \in {5, 8}
    /\ In02(s[1]) /\ IsDigit(s[2]) /\ s[3] = ":" /\ In05(s[4]) /\ IsDigit(s[5])
    /\ (Len(s) = 8 => s[6] = ":" /\ In05(s[7]) /\ IsDigit(s[8]))

\* ^([0-5]\d)?:[0-5]\d$
MatchHourly(s) ==
    \/ Len(s) = 3 /\ s[1] = ":" /\ In05(s[2]) /\ IsDigit(s[3])
    \/ Len(s) = 5 /\ In05(s[1]) /\ IsDigit(s[2]) /\ s[3] = ":" /\ In05(s[4]) /\ IsDigit(s[5])

\* ^:[0-5]\d$
MatchMinutely(s) == Len(s) = 3 /\ s[1] = ":" /\ In05(s[2]) /\ IsDigit(s[3])

NoTime == [ok |-> FALSE, at |-> <<>>]

\* Job.at(time_str) on a job of this unit, with or without a start day:
\* ok = FALSE is ScheduleValueError, else at = <<hour, minute, second>>.
JobAt(unit, hasDay, s) ==
    LET daily == unit = "days" \/ hasDay
        v     == SplitOn(s, ":")
    IN  IF unit \notin {"days", "hours", "minutes"} /\ ~hasDay THEN NoTime
        ELSE IF daily /\ ~MatchDaily(s) THEN NoTime
        ELSE IF unit = "hours" /\ ~MatchHourly(s) THEN NoTime
        ELSE IF unit = "minutes" /\ ~MatchMinutely(s) THEN NoTime
        ELSE LET hms == IF Len(v) = 3 THEN v
                        ELSE IF unit = "minutes" THEN << <<"0">>, <<"0">>, v[2] >>
                        ELSE IF unit = "hours" /\ v[1] # <<>> THEN << <<"0">>, v[1], v[2] >>
                        ELSE << v[1], v[2], <<"0">> >>
                 h   == IF daily THEN DecVal(hms[1]) ELSE 0
                 m   == IF ~daily /\ unit = "minutes" THEN 0 ELSE DecVal(hms[2])
             IN  IF daily /\ ~(0 <= h /\ h <= 23) THEN NoTime
                 ELSE [ok |-> TRUE, at |-> <<h, m, DecVal(hms[3])>>]

(***************************************************************************)
(* schedule.Job._schedule_next_run: the next run of a job, read at clock t.*)
(***************************************************************************)
UnitSeconds(unit) ==
    CASE unit = "seconds" -> 1
      [] unit = "minutes" -> 60
      [] unit = "hours"   -> 3600
      [] unit = "days"    -> 86400
      [] unit = "weeks"   -> 604800

\* datetime.weekday(): Monday is 0; second 0 of the clock is a Monday 00:00:00
WeekdayOf(t) == (t \div 86400) % 7

\* datetime.replace(hour=, minute=, second=) with the fields the unit replaces
ReplaceAt(t, unit, hasDay, at) ==
    IF unit = "days" \/ hasDay
    THEN (t \div 86400) * 86400 + at[1] * 3600 + at[2] * 60 + at[3]
    ELSE IF unit = "hours"
    THEN (t \div 3600) * 3600 + at[2] * 60 + at[3]
    ELSE (t \div 60) * 60 + at[3]

\* next_run without at_time and start_day: one period after the clock
NextRunAfterPeriod(j, t) == t + j.interval * UnitSeconds(j.unit)

\* next_run of job j (its unit, interval, start_day, at_time, last_run), at clock t.
\* The clock reads t seconds and a fraction of a second that is not zero, and a
\* next_run with an at_time has no fraction: (next_run - now).days >= 7 is
\* then next_run - t > 7 days; the other comparisons do not depend on the fraction.
NextRun(j, t) ==
    LET period == j.interval * UnitSeconds(j.unit)
        hasDay == j.start_day # <<>>
        hasAt  == j.at_time # <<>>
        n0     == t + period
        ahead0 == j.start_day[1] - WeekdayOf(n0)
        ahead  == IF ahead0 <= 0 THEN ahead0 + 7 ELSE ahead0
        n1     == IF hasDay THEN n0 + ahead * 86400 - period ELSE n0
        n2     == ReplaceAt(n1, j.unit, hasDay, j.at_time)
        tod    == t % 86400
        atod   == j.at_time[1] * 3600 + j.at_time[2] * 60 + j.at_time[3]
        fresh  == j.last_run = <<>> \/ (n2 - j.last_run[1]) > period
        n3     == IF ~hasAt THEN n1
                  ELSE IF ~fresh THEN n2
                  ELSE IF j.unit = "days" /\ atod > tod /\ j.interval = 1 THEN n2 - 86400
                  ELSE IF j.unit = "hours"
                          /\ j.at_time[2] * 60 + j.at_time[3] > t % 3600 THEN n2 - 3600
                  ELSE IF j.unit = "minutes" /\ j.at_time[3] > t % 60 THEN n2 - 60
                  ELSE n2
    IN  IF hasDay /\ hasAt /\ n3 - t > 7 * 86400 THEN n3 - period ELSE n3

(***************************************************************************)
(* Tasks, and the storage file.                                            *)
(***************************************************************************)
None == [py |-> "None"]

\* datetime.isoformat() of the clock value t
Iso(t) == [iso |-> t]

\* add_task with the name and the command in each other's place
NewTaskSwapped(name, command, schedule_type, schedule_time) ==
    [name |-> command, command |-> name, schedule_type |-> schedule_type,
     schedule_time |-> schedule_time, enabled |-> TRUE, last_run |-> None]

\* the dict add_task builds
NewTask(name, command, schedule_type, schedule_time) ==
    [name |-> name, command |-> command, schedule_type |-> schedule_type,
     schedule_time |-> schedule_time, enabled |-> TRUE, last_run |-> None]

\* every task counts as enabled
IsEnabledAlways(t) == TRUE

\* task.get('enabled', True)
IsEnabled(t) == IF "enabled" \in DOMAIN t THEN t.enabled ELSE TRUE

\* the task is also switched off when its last_run is set
SetLastRunAndDisable(t, v) ==
    [k \in DOMAIN t \cup {"last_run", "enabled"} |->
        IF k = "last_run" THEN v ELSE IF k = "enabled" THEN FALSE ELSE t[k]]

\* the assignment of last_run is lost: the task is left as it was
SetLastRunLost(t, v) == t

\* task['last_run'] = v
SetLastRun(t, v) ==
    [k \in DOMAIN t \cup {"last_run"} |-> IF k = "last_run" THEN v ELSE t[k]]

\* json.dump of one value: strings are quoted, True/False/None become true/false/null
EncodeValue(k, v) ==
    IF k = "enabled" THEN (IF v THEN [json |-> "true"] ELSE [json |-> "false"])
    ELSE IF k = "last_run" /\ v = None THEN [json |-> "null"]
    ELSE [json |-> "string", chars |-> v]

\* json.load of one value
DecodeValue(j) ==
    CASE j.json = "true"   -> TRUE
      [] j.json = "false"  -> FALSE
      [] j.json = "null"   -> None
      [] j.json = "string" -> j.chars

\* json.dump(list of dicts): the text written
JsonDump(l) ==
    [syntax |-> "json",
     items  |-> [i \in 1..Len(l) |-> [k \in DOMAIN l[i] |-> EncodeValue(k, l[i][k])]]]

\* json.load inside try/except: text that is not JSON loads as the empty list
JsonLoadOrEmpty(text) ==
    IF text.syntax = "json"
    THEN [ok  |-> TRUE,
          val |-> [i \in 1..Len(text.items) |->
                     [k \in DOMAIN text.items[i] |-> DecodeValue(text.items[i][k])]]]
    ELSE [ok |-> TRUE, val |-> <<>>]

\* json.load(text): ok = FALSE is JSONDecodeError
JsonLoad(text) ==
    IF text.syntax = "json"
    THEN [ok  |-> TRUE,
          val |-> [i \in 1..Len(text.items) |->
                     [k \in DOMAIN text.items[i] |-> DecodeValue(text.items[i][k])]]]
    ELSE [ok |-> FALSE, val |-> <<>>]

\* load_tasks on file f: ok = FALSE is the JSONDecodeError of json.load
LoadTasks(f) == IF f.exists THEN JsonLoad(f.text) ELSE [ok |-> TRUE, val |-> <<>>]

Absent == [exists |-> FALSE, text |-> [syntax |-> "none", items |-> <<>>]]

\* the file right after open(config_file, 'w'): it exists and is empty
Truncated == [exists |-> TRUE, text |-> [syntax |-> "empty", items |-> <<>>]]

\* a file holding only a prefix of the text json.dump was writing
Partial == [exists |-> TRUE, text |-> [syntax |-> "partial", items |-> <<>>]]

\* a file whose content is not JSON
Garbage == [exists |-> TRUE, text |-> [syntax |-> "garbage", items |-> <<>>]]

\* the file after the with-block of save_tasks ended normally
Written(l) == [exists |-> TRUE, text |-> JsonDump(l)]

(***************************************************************************)
(* schedule_task: the registration of one task with the schedule library.  *)
(***************************************************************************)
Weekdays == <<<<"m", "o", "n", "d", "a", "y">>,
             <<"t", "u", "e", "s", "d", "a", "y">>,
             <<"w", "e", "d", "n", "e", "s", "d", "a", "y">>,
             <<"t", "h", "u", "r", "s", "d", "a", "y">>,
             <<"f", "r", "i", "d", "a", "y">>,
             <<"s", "a", "t", "u", "r", "d", "a", "y">>,
             <<"s", "u", "n", "d", "a", "y">>>>

\* the unit properties of schedule.Job, singular and plural, with the unit they set
UnitProps == {<<<<"s", "e", "c", "o", "n", "d">>, "seconds">>, <<<<"s", "e", "c", "o", "n", "d", "s">>, "seconds">>,
              <<<<"m", "i", "n", "u", "t", "e">>, "minutes">>, <<<<"m", "i", "n", "u", "t", "e", "s">>, "minutes">>,
              <<<<"h", "o", "u", "r">>, "hours">>, <<<<"h", "o", "u", "r", "s">>, "hours">>,
              <<<<"d", "a", "y">>, "days">>, <<<<"d", "a", "y", "s">>, "days">>,
              <<<<"w", "e", "e", "k">>, "weeks">>, <<<<"w", "e", "e", "k", "s">>, "weeks">>}

\* getattr(schedule.every(), attr): a weekday property (unit weeks and a
\* start day), a unit property, or no Job at all (ok = FALSE: an error at
\* the getattr or at the .at call that follows)
EveryAttr(attr) ==
    IF \E d \in 1..7 : Weekdays[d] = attr
    THEN [ok |-> TRUE, unit |-> "weeks", start_day |-> <<(CHOOSE d \in 1..7 : Weekdays[d] = attr) - 1>>]
    ELSE IF \E p \in UnitProps : p[1] = attr
    THEN [ok |-> TRUE, unit |-> (CHOOSE p \in UnitProps : p[1] = attr)[2], start_day |-> <<>>]
    ELSE [ok |-> FALSE, unit |-> "", start_day |-> <<>>]

NoJob ==
    [task |-> 0, unit |-> "", interval |-> 0, at_time |-> <<>>, start_day |-> <<>>,
     next_run |-> 0, last_run |-> <<>>]

Raised(e) == [res |-> "error", job |-> NoJob, err |-> e]

\* Job.do(job): the job gets its first next_run and joins schedule.jobs
Do(task, unit, interval, at_time, start_day, t) ==
    LET j == [task |-> task, unit |-> unit, interval |-> interval, at_time |-> at_time,
              start_day |-> start_day, next_run |-> 0, last_run |-> <<>>]
    IN  [res |-> "job", job |-> [j EXCEPT !.next_run = NextRun(j, t)], err |-> ""]

\* schedule_task(task) for the task at index idx of self.tasks, at clock t:
\* res = "job" (job is appended to schedule.jobs), "error" (err is raised),
\* or "nothing" (no branch of the if/elif chain is taken)
ScheduleTask(task, idx, t) ==
    LET ty == task.schedule_type
        st == task.schedule_time
    IN  IF ty = "interval"
        THEN LET n == PyInt(st)
             IN  IF n.ok THEN Do(idx, "minutes", n.val, <<>>, <<>>, t)
                 ELSE Raised("ValueError")
        ELSE IF ty = "hourly"
        THEN LET a == JobAt("hours", FALSE, <<":">> \o st)
             IN  IF a.ok THEN Do(idx, "hours", 1, a.at, <<>>, t)
                 ELSE Raised("ScheduleValueError")
        ELSE IF ty = "daily"
        THEN LET a == JobAt("days", FALSE, st)
             IN  IF a.ok THEN Do(idx, "days", 1, a.at, <<>>, t)
                 ELSE Raised("ScheduleValueError")
        ELSE IF ty = "weekly"
        THEN LET parts == SplitBlank(st)
             IN  IF Len(parts) # 2 THEN Raised("ValueError")
                 ELSE LET e == EveryAttr(Lower(parts[1]))
                          a == JobAt(e.unit, e.start_day # <<>>, parts[2])
                      IN  IF ~e.ok THEN Raised("AttributeError")
                          ELSE IF ~a.ok THEN Raised("ScheduleValueError")
                          ELSE Do(idx, e.unit, 1, a.at, e.start_day, t)
        ELSE [res |-> "nothing", job |-> NoJob, err |-> ""]

(***************************************************************************)
(* The inputs of the model.                                                *)
(***************************************************************************)
\* arguments of add_task: <<name, command, schedule_type, schedule_time>>
AddArgs ==
    { <<"disk", "df", "interval", <<"1">>>>,
      <<"nightly", "tar", "daily", <<"2", "5", ":", "9", "9">>>>,
      <<"update", "pkg", "weekly", <<"S", "u", "n", "d", "a", "y", " ", "0", "4", ":", "0", "0">>>>,
      <<"report", "du", "monthly", <<"1">>>>,
      <<"sync", "rsync", "interval", <<"s", "o", "o", "n">>>>,
      <<"rotate", "mv", "weekly", <<"f", "u", "n", "d", "a", "y", " ", "0", "4", ":", "0", "0">>>>,
      <<"stamp", "date", "hourly", <<"3", "0">>>>,
      <<"weekly", "apt", "weekly", <<"d", "a", "y", " ", "0", "4", ":", "0", "0">>>> }

Stored(name, command, schedule_type, schedule_time, enabled) ==
    [NewTask(name, command, schedule_type, schedule_time) EXCEPT !.enabled = enabled]

\* EXAMPLE_TASKS: four dicts of four keys each
EXAMPLE_TASKS ==
    << [name |-> "System Backup", command |-> "tar", schedule_type |-> "daily",
        schedule_time |-> <<"0", "2", ":", "0", "0">>],
       [name |-> "Clear Temp Files", command |-> "rm", schedule_type |-> "daily",
        schedule_time |-> <<"0", "3", ":", "0", "0">>],
       [name |-> "Check Disk Space", command |-> "df", schedule_type |-> "interval",
        schedule_time |-> <<"6", "0">>],
       [name |-> "Update Packages", command |-> "pkg", schedule_type |-> "weekly",
        schedule_time |-> <<"s", "u", "n", "d", "a", "y", " ", "0", "4", ":", "0", "0">>] >>

\* task lists tasks.json may hold when the process starts: written by hand,
\* left by an add_task whose schedule_task failed, or by the first run of the script
StoredLists ==
    { << Stored("slow", "rsync", "interval", <<"3">>, TRUE),
         Stored("mid", "du", "interval", <<"2">>, TRUE),
         Stored("fast", "df", "interval", <<"1">>, TRUE) >>,
      << Stored("hourly", "date", "hourly", <<"3", "0">>, TRUE),
         Stored("off", "rm", "interval", <<"1">>, FALSE) >>,
      << Stored("disk", "df", "interval", <<"1">>, TRUE),
         Stored("nightly", "tar", "daily", <<"2", "5", ":", "9", "9">>, TRUE) >>,
      EXAMPLE_TASKS }

InitFiles == {Absent, Garbage, Truncated} \cup {Written(l) : l \in StoredLists}

\* the clock when the first process starts: a Sunday 03:59:30
StartTimes == {532770}

\* how a command ends (exit status zero, non-zero, or subprocess.run raises)
\* and the seconds it took
CommandRuns == {<<"exit0", 0>>, <<"exit1", 150>>, <<"raise", 1>>}

(***************************************************************************)
(* The state when the process starts, before TaskScheduler() is built.     *)
(***************************************************************************)
NoCall == [made |-> FALSE, args |-> <<>>, before |-> Absent]

Init ==
    /\ file \in InitFiles
    /\ now \in StartTimes
    /\ mode \in {"script", "api"}
    /\ tasks = <<>>
    /\ jobs = <<>>
    /\ pc = "start"
    /\ err = ""
    /\ exit = -1
    /\ pend = <<>>
    /\ fired = <<>>
    /\ execd = {}
    /\ call = NoCall
    /\ cur = 0
    /\ adds = 0
    /\ fires = 0
    /\ ticks = 0

\* the process ends with an uncaught exception e
Die(e) == pc' = "dead" /\ err' = e /\ exit' = 1

(***************************************************************************)
(* TaskScheduler.__init__ and load_tasks.                                  *)
(***************************************************************************)
Construct ==
    /\ pc = "start"
    /\ IF LoadTasks(file).ok
       THEN /\ tasks' = LoadTasks(file).val
            /\ pc' = IF mode = "script" THEN "seed" ELSE "ready"
            /\ UNCHANGED <<err, exit>>
       ELSE /\ Die("JSONDecodeError")
            /\ UNCHANGED tasks
    /\ UNCHANGED <<file, jobs, now, mode, pend, fired, execd, call, cur, fires, ticks, adds>>

(***************************************************************************)
(* __main__: the example file is created when tasks.json does not exist,   *)
(* then run() is called.                                                   *)
(***************************************************************************)
SeedOpen ==
    /\ pc = "seed"
    /\ ~file.exists
    /\ file' = Truncated
    /\ pc' = "seed_write"
    /\ UNCHANGED <<tasks, jobs, now, mode, err, exit, pend, fired, execd, call, cur, fires, ticks, adds>>

SeedWrite ==
    /\ pc = "seed_write"
    /\ file' = Written(EXAMPLE_TASKS)
    /\ pc' = "startup"
    /\ cur' = 1
    /\ UNCHANGED <<tasks, jobs, now, mode, err, exit, pend, fired, execd, call, fires, ticks, adds>>

SeedSkip ==
    /\ pc = "seed"
    /\ file.exists
    /\ pc' = "startup"
    /\ cur' = 1
    /\ UNCHANGED <<file, tasks, jobs, now, mode, err, exit, pend, fired, execd, call, fires, ticks, adds>>

(***************************************************************************)
(* add_task: append, save_tasks (open, then dump), schedule_task.          *)
(***************************************************************************)
AddTask ==
    /\ pc = "ready"
    /\ adds < MaxAdds
    /\ adds' = adds + 1
    /\ \E a \in AddArgs :
          /\ tasks' = Append(tasks, NewTask(a[1], a[2], a[3], a[4]))
          /\ call' = [made |-> TRUE, args |-> a, before |-> file]
    /\ cur' = Len(tasks) + 1
    /\ file' = Truncated
    /\ err' = ""
    /\ pc' = "add_write"
    /\ UNCHANGED <<jobs, now, mode, exit, pend, fired, execd, fires, ticks>>

AddWrite ==
    /\ pc = "add_write"
    /\ file' = Written(tasks)
    /\ LET r == ScheduleTask(tasks[cur], cur, now)
       IN  /\ jobs' = IF r.res = "job" THEN Append(jobs, r.job) ELSE jobs
           /\ err' = r.err
    /\ pc' = "ready"
    /\ UNCHANGED <<tasks, now, mode, exit, pend, fired, execd, call, cur, fires, ticks, adds>>

(***************************************************************************)
(* run: every enabled task is scheduled, then the loop.                    *)
(***************************************************************************)
Run ==
    /\ pc = "ready"
    /\ pc' = "startup"
    /\ cur' = 1
    /\ call' = NoCall
    /\ UNCHANGED <<file, tasks, jobs, now, mode, err, exit, pend, fired, execd, fires, ticks, adds>>

\* run that skips a task whose schedule_task raised and goes on with the next
StartupTaskSkipping ==
    /\ pc = "startup"
    /\ cur <= Len(tasks)
    /\ LET r == ScheduleTask(tasks[cur], cur, now)
       IN  jobs' = IF IsEnabled(tasks[cur]) /\ r.res = "job" THEN Append(jobs, r.job) ELSE jobs
    /\ cur' = cur + 1
    /\ UNCHANGED <<file, tasks, now, mode, pc, err, exit, pend, fired, execd, call, fires, ticks, adds>>

StartupTask ==
    /\ pc = "startup"
    /\ cur <= Len(tasks)
    /\ LET r == ScheduleTask(tasks[cur], cur, now)
       IN  IF IsEnabled(tasks[cur]) /\ r.res = "error"
           THEN /\ Die(r.err)
                /\ UNCHANGED <<jobs, cur>>
           ELSE /\ jobs' = IF IsEnabled(tasks[cur]) /\ r.res = "job"
                           THEN Append(jobs, r.job) ELSE jobs
                /\ cur' = cur + 1
                /\ UNCHANGED <<pc, err, exit>>
    /\ UNCHANGED <<file, tasks, now, mode, pend, fired, execd, call, fires, ticks, adds>>

StartupDone ==
    /\ pc = "startup"
    /\ cur > Len(tasks)
    /\ pc' = "poll"
    /\ UNCHANGED <<file, tasks, jobs, now, mode, err, exit, pend, fired, execd, call, cur, fires, ticks, adds>>

(***************************************************************************)
(* schedule.run_pending and Job.run, called from the loop of run.          *)
(***************************************************************************)
\* Job.should_run
Runnable(js, t) == {k \in 1..Len(js) : t >= js[k].next_run}

RECURSIVE SortJobs(_, _)
\* sorted(runnable_jobs): Job.__lt__ compares next_run, and the sort is stable
SortJobs(js, S) ==
    IF S = {} THEN <<>>
    ELSE LET m == CHOOSE x \in S : \A y \in S :
                      \/ js[x].next_run < js[y].next_run
                      \/ js[x].next_run = js[y].next_run /\ x <= y
         IN  <<m>> \o SortJobs(js, S \ {m})

\* the runnable jobs in the order of schedule.jobs, not sorted
RunPendingUnsorted(js, t) ==
    SelectSeq([k \in 1..Len(js) |-> k], LAMBDA k : k \in Runnable(js, t))

\* the jobs one run_pending call runs, in the order it runs them
RunPendingList(js, t) == SortJobs(js, Runnable(js, t))

\* Job.run that sets last_run and leaves next_run as it was
FinishJobStale(j, t) == [j EXCEPT !.last_run = <<t>>]

\* Job.run that adds one period to the previous next_run
FinishJobOnGrid(j, t) ==
    [j EXCEPT !.last_run = <<t>>, !.next_run = j.next_run + j.interval * UnitSeconds(j.unit)]

\* Job.run after job_func returned, at clock t: last_run, then the next run
FinishJob(j, t) ==
    LET j1 == [j EXCEPT !.last_run = <<t>>]
    IN  [j1 EXCEPT !.next_run = NextRun(j1, t)]

\* the command is started and not waited for
AfterStartNoWait(p) == "fire"

\* where the loop is once job() called subprocess.run for a job of the list p:
\* inside the call, which returns only when the command has ended
AfterStart(p) == "cmd"

\* run_pending that stops after the first job it ran
AfterJobStop(p) == "sleep"

\* where the loop goes after a job of the list p has run
AfterJob(p) == IF Tail(p) = <<>> THEN "sleep" ELSE "fire"

Poll ==
    /\ pc = "poll"
    /\ ticks < MaxTicks
    /\ ticks' = ticks + 1
    /\ pend' = RunPendingList(jobs, now)
    /\ fired' = <<>>
    /\ pc' = IF RunPendingList(jobs, now) = <<>> THEN "sleep" ELSE "fire"
    /\ UNCHANGED <<file, tasks, jobs, now, mode, err, exit, execd, call, cur, fires, adds>>

\* job(): the command of the first pending job is started
FireStart ==
    /\ pc = "fire"
    /\ fires < MaxFires
    /\ fires' = fires + 1
    /\ fired' = Append(fired, [job |-> Head(pend), due |-> jobs[Head(pend)].next_run,
                               outcome |-> "running"])
    /\ execd' = execd \cup {jobs[Head(pend)].task}
    /\ pc' = AfterStart(pend)
    /\ UNCHANGED <<file, tasks, jobs, now, mode, err, exit, pend, call, cur, ticks, adds>>

\* subprocess.run returns or raises, after d seconds
CmdEnd ==
    /\ pc = "cmd"
    /\ \E r \in CommandRuns :
          /\ now' = now + r[2]
          /\ fired' = [fired EXCEPT ![Len(fired)].outcome = r[1]]
          /\ IF r[1] = "raise"
             THEN /\ jobs' = [jobs EXCEPT ![Head(pend)] = FinishJob(@, now + r[2])]
                  /\ pend' = Tail(pend)
                  /\ pc' = AfterJob(pend)
                  /\ UNCHANGED <<tasks, file>>
             ELSE /\ tasks' = [tasks EXCEPT ![jobs[Head(pend)].task] = SetLastRun(@, Iso(now + r[2]))]
                  /\ file' = Truncated
                  /\ pc' = "job_write"
                  /\ UNCHANGED <<jobs, pend>>
    /\ UNCHANGED <<mode, err, exit, execd, call, cur, fires, ticks, adds>>

\* save_tasks in job() completes; Job.run schedules the next run
JobWrite ==
    /\ pc = "job_write"
    /\ file' = Written(tasks)
    /\ jobs' = [jobs EXCEPT ![Head(pend)] = FinishJob(@, now)]
    /\ pend' = Tail(pend)
    /\ pc' = AfterJob(pend)
    /\ UNCHANGED <<tasks, now, mode, err, exit, fired, execd, call, cur, fires, ticks, adds>>

\* the clock of the first tick, after t, at which a job is runnable
NextTick(js, t) ==
    LET first == CHOOSE k \in 1..Len(js) : \A i \in 1..Len(js) : js[k].next_run <= js[i].next_run
    IN  IF js # <<>> /\ js[first].next_run > t + 1 THEN js[first].next_run ELSE t + 1

\* time.sleep(1), and the ticks at which nothing is runnable
Sleep ==
    /\ pc = "sleep"
    /\ now' = NextTick(jobs, now)
    /\ pc' = "poll"
    /\ UNCHANGED <<file, tasks, jobs, mode, err, exit, pend, fired, execd, call, cur, fires, ticks, adds>>

(***************************************************************************)
(* The ends of the process.                                                *)
(***************************************************************************)
Alive == pc # "dead"

\* KeyboardInterrupt is caught only while the loop sleeps
InRunAsleep == pc = "sleep"

InRun == pc \in {"startup", "poll", "fire", "cmd", "job_write", "sleep"}

Writing == pc \in {"seed_write", "add_write", "job_write"}

\* the file a process leaves when it ends: as it is, or, between open and
\* the end of the with-block, with part of the text
LeftFile == IF Writing THEN {file, Partial} ELSE {file}

\* the memory of a process that was interrupted or killed is gone
Forgotten ==
    /\ tasks' = <<>>
    /\ jobs' = <<>>
    /\ pend' = <<>>
    /\ fired' = <<>>
    /\ execd' = {}
    /\ call' = NoCall
    /\ cur' = 0
    /\ UNCHANGED <<adds, fires, ticks>>

\* SIGINT: KeyboardInterrupt, caught only around scheduler.run() in __main__
Interrupt ==
    /\ Alive
    /\ pc' = "dead"
    /\ file' \in LeftFile
    /\ IF mode = "script" /\ InRun
       THEN exit' = 0 /\ err' = ""
       ELSE exit' = 1 /\ err' = "KeyboardInterrupt"
    /\ Forgotten
    /\ UNCHANGED <<now, mode>>

\* SIGKILL, power loss
Kill ==
    /\ Alive
    /\ pc' = "dead"
    /\ file' \in LeftFile
    /\ exit' = 137
    /\ err' = ""
    /\ Forgotten
    /\ UNCHANGED <<now, mode>>

Next ==
    \/ Construct
    \/ SeedOpen
    \/ SeedWrite
    \/ SeedSkip
    \/ AddTask
    \/ AddWrite
    \/ Run
    \/ StartupTask
    \/ StartupDone
    \/ Poll
    \/ FireStart
    \/ CmdEnd
    \/ JobWrite
    \/ Sleep
    \/ Interrupt
    \/ Kill

Spec == Init /\ [][Next]_vars

(***************************************************************************)
(* The script when no signal arrives: every step of the single thread is   *)
(* taken sooner or later, and every command ends.                          *)
(***************************************************************************)
InitScript == Init /\ mode = "script"

NextUndisturbed ==
    \/ Construct
    \/ SeedOpen
    \/ SeedWrite
    \/ SeedSkip
    \/ StartupTask
    \/ StartupDone
    \/ Poll
    \/ FireStart
    \/ CmdEnd
    \/ JobWrite
    \/ Sleep

SpecUndisturbed ==
    /\ InitScript
    /\ [][NextUndisturbed]_vars
    /\ WF_vars(Poll)
    /\ WF_vars(FireStart)
    /\ WF_vars(CmdEnd)
    /\ WF_vars(JobWrite)
    /\ WF_vars(Sleep)

(***************************************************************************)
(* One job on its own: schedule_task at a reference time, then the loop    *)
(* picking the job up, late or not, and Job.run computing the next run     *)
(* when the command has ended.                                             *)
(***************************************************************************)
\* <<schedule_type, schedule_time>> of the task
Rules ==
    { <<"interval", <<"1">>>>,
      <<"interval", <<"6", "0">>>>,
      <<"interval", <<"0">>>>,
      <<"hourly", <<"3", "0">>>>,
      <<"hourly", <<"0", "0">>>>,
      <<"daily", <<"0", "2", ":", "0", "0">>>>,
      <<"daily", <<"0", "0", ":", "0", "0">>>>,
      <<"daily", <<"2", "3", ":", "5", "9">>>>,
      <<"weekly", <<"s", "u", "n", "d", "a", "y", " ", "0", "4", ":", "0", "0">>>>,
      <<"weekly", <<"S", "u", "n", "d", "a", "y", " ", "0", "4", ":", "0", "0">>>>,
      <<"weekly", <<"M", "O", "N", "D", "A", "Y", " ", "0", "0", ":", "0", "0">>>> }

\* the clock at registration: Monday 00:00:00, 01:59:59, 02:00:00, 10:00:00,
\* 23:59:59; Wednesday 14:29:59, 14:30:00, 14:30:01; Sunday 03:59:30,
\* 04:00:00, 04:00:30, 23:59:59
RefTimes ==
    {0, 7199, 7200, 36000, 86399, 224999, 225000, 225001, 532770, 532800, 532830, 604799}

\* seconds between the next_run of a job and the tick that finds it runnable
PickupDelays == {0, 45}

\* seconds a command takes: none, minutes, more than an hour, more than a day
Durations == {0, 150, 4000, 90000}

InitNextRun ==
    /\ now \in RefTimes
    /\ \E r \in Rules : tasks = <<NewTask("job", "true", r[1], r[2])>>
    /\ file = Absent
    /\ mode = "api"
    /\ jobs = <<>>
    /\ pc = "register"
    /\ err = ""
    /\ exit = -1
    /\ pend = <<>>
    /\ fired = <<>>
    /\ execd = {}
    /\ call = NoCall
    /\ cur = 1
    /\ adds = 0
    /\ fires = 0
    /\ ticks = 0

\* schedule_task(task) at the clock now
RegisterJob ==
    /\ pc = "register"
    /\ ScheduleTask(tasks[cur], cur, now).res = "job"
    /\ jobs' = <<ScheduleTask(tasks[cur], cur, now).job>>
    /\ pc' = "waiting"
    /\ UNCHANGED <<file, tasks, now, mode, err, exit, pend, fired, execd, call, cur, adds, fires, ticks>>

\* a tick finds the job runnable, its command runs, Job.run sets last_run and next_run
RunJob ==
    /\ pc = "waiting"
    /\ fires < MaxFires
    /\ fires' = fires + 1
    /\ \E late \in PickupDelays, d \in Durations :
          LET start == (IF jobs[1].next_run > now THEN jobs[1].next_run ELSE now) + late
          IN  /\ now' = start + d
              /\ jobs' = <<FinishJob(jobs[1], start + d)>>
              /\ fired' = Append(fired, [job |-> 1, due |-> jobs[1].next_run, start |-> start,
                                         outcome |-> "exit0"])
    /\ UNCHANGED <<file, tasks, pc, mode, err, exit, pend, execd, call, cur, adds, ticks>>

NextOfNextRun ==
    \/ RegisterJob
    \/ RunJob

SpecNextRun == InitNextRun /\ [][NextOfNextRun]_vars

(***************************************************************************)
(* Claims.                                                                 *)
(***************************************************************************)
\* the task at index i of self.tasks has a job in schedule.jobs
HasJob(i) == \E k \in 1..Len(jobs) : jobs[k].task = i

\* add_task has returned to its caller (normally or with an exception)
Added == pc = "ready" /\ call.made

\* C1: add_task(name, command, schedule_type, schedule_time) followed by a
\* load returns the tasks stored before the call, unchanged and in order,
\* followed by one task with those four values, enabled = true and
\* last_run = null.
C1_AddThenLoad ==
    Added =>
        /\ LoadTasks(file).ok
        /\ LoadTasks(file).val =
              Append(LoadTasks(call.before).val,
                     [name |-> call.args[1], command |-> call.args[2],
                      schedule_type |-> call.args[3], schedule_time |-> call.args[4],
                      enabled |-> TRUE, last_run |-> None])

\* an add_task on a file that held two tasks has returned
C1_Witness == Added /\ call.before.exists /\ Len(LoadTasks(file).val) = 3

\* "HH:MM", 24-hour
IsHHMM(s) ==
    /\ Len(s) = 5
    /\ IsDigit(s[1]) /\ IsDigit(s[2]) /\ s[3] = ":" /\ IsDigit(s[4]) /\ IsDigit(s[5])
    /\ DecVal(<<s[1], s[2]>>) <= 23
    /\ DecVal(<<s[4], s[5]>>) <= 59

ScheduleTypes == {"interval", "hourly", "daily", "weekly"}

\* schedule_time st reads as the grammar of schedule_type ty says: an integer,
\* a two-digit minute, HH:MM, or a weekday name and HH:MM
Parses(ty, st) ==
    CASE ty = "interval" ->
            \/ AllDigits(st)
            \/ Len(st) >= 2 /\ st[1] \in {"+", "-"} /\ AllDigits(Tail(st))
      [] ty = "hourly" -> Len(st) = 2 /\ AllDigits(st) /\ DecVal(st) <= 59
      [] ty = "daily" -> IsHHMM(st)
      [] ty = "weekly" ->
            /\ Len(SplitBlank(st)) = 2
            /\ \E d \in 1..7 : Weekdays[d] = Lower(SplitBlank(st)[1])
            /\ IsHHMM(SplitBlank(st)[2])
      [] OTHER -> FALSE

\* the task t has one of the four schedule types and a schedule_time that
\* does not parse under it
Unparseable(t) == t.schedule_type \in ScheduleTypes /\ ~Parses(t.schedule_type, t.schedule_time)

\* C2: add_task with a schedule_time that does not parse under its
\* schedule_type raises to the caller, the task is in the stored list with
\* enabled = true, and the task has no job and its command is never started.
C2_InvalidTimeRaisesAndPersists ==
    /\ (Added /\ Unparseable(tasks[cur])) =>
          /\ err # ""
          /\ LoadTasks(file).ok
          /\ LoadTasks(file).val[cur] = tasks[cur]
          /\ LoadTasks(file).val[cur].enabled = TRUE
          /\ Len(LoadTasks(file).val) = cur
    /\ \A i \in 1..Len(tasks) :
          (IsEnabled(tasks[i]) /\ Unparseable(tasks[i])) => (~HasJob(i) /\ i \notin execd)

\* C3: a registration ends with a job for the task in the active set or with
\* an error raised to the caller, at add_task and at the start of run.
C3_RegistrationNeverSilent ==
    /\ Added => (HasJob(cur) \/ err # "")
    /\ pc = "poll" => \A i \in 1..Len(tasks) : IsEnabled(tasks[i]) => HasJob(i)

\* the stored value of enabled is false
Disabled(t) == "enabled" \in DOMAIN t /\ t.enabled = FALSE

\* C4: a task loaded with enabled = false has no job in any state of the
\* run, its command is never started and its last_run stays null, in memory
\* and in the file.
C4_DisabledNeverScheduled ==
    /\ \A i \in 1..Len(tasks) :
          Disabled(tasks[i]) =>
             (~HasJob(i) /\ i \notin execd /\ tasks[i].last_run = None)
    /\ (file.exists /\ file.text.syntax = "json") =>
          \A i \in 1..Len(file.text.items) :
             ("enabled" \in DOMAIN file.text.items[i]
                 /\ file.text.items[i].enabled.json = "false") =>
                file.text.items[i].last_run.json = "null"

\* the loop polls, a minute or more after the start, with a disabled task
\* whose rule (every minute) has been due, and another job has run
C4_Witness ==
    /\ pc = "poll"
    /\ fires >= 1
    /\ \E i \in 1..Len(tasks) : Disabled(tasks[i]) /\ tasks[i].schedule_type = "interval"
    /\ \A t0 \in StartTimes : now >= t0 + 60

C6_SaveIsCrashSafe ==
    [][(pc \in {"add_write", "job_write"} /\ pc' = "dead") => LoadTasks(file').ok]_vars

\* C7: when the script starts without a file, the task list it holds when
\* run starts is the example list it has just written.
C7_SeededListIsLoaded ==
    (mode = "script" /\ pc = "startup" /\ file = Written(EXAMPLE_TASKS)) =>
        tasks = LoadTasks(file).val

\* the firings of this tick whose command has not ended
Running == {i \in 1..Len(fired) : fired[i].outcome = "running"}

\* C8: at most one command runs at any time, the loop is then inside that
\* firing, and the only steps it takes from there are the end of the command
\* and the end of the process.
C8_OneFiringAtATime ==
    /\ [](/\ Cardinality(Running) <= 1
          /\ Running # {} => (pc = "cmd" /\ Running = {Len(fired)}))
    /\ [][pc = "cmd" =>
            \/ pc' = "dead"
            \/ /\ fired'[Len(fired)].outcome # "running"
               /\ Len(fired') = Len(fired)
               /\ ticks' = ticks /\ fires' = fires /\ execd' = execd]_vars

\* a command runs while another due job waits for it
C8_Witness == pc = "cmd" /\ Len(pend) >= 2 /\ Running = {Len(fired)}

\* C9, as stated: the jobs of one tick are fired in the order of their registration.
C9_FiredInRegistrationOrder ==
    \A i, j \in 1..Len(fired) : i < j => fired[i].job < fired[j].job

\* C9, amended: the jobs of one tick are fired in the order of their
\* next-fire-times, and in the order of their registration among jobs with
\* the same next-fire-time; a firing has ended when the next one starts.
C9_FiredInDueOrder ==
    \A i, j \in 1..Len(fired) :
        i < j =>
           /\ \/ fired[i].due < fired[j].due
              \/ fired[i].due = fired[j].due /\ fired[i].job < fired[j].job
           /\ fired[i].outcome # "running"

\* two jobs fired in one tick, the one registered later first
C9_Witness == Len(fired) >= 2 /\ fired[1].job > fired[2].job /\ fired[1].due < fired[2].due

\* a step in which a firing ends and the loop goes on
FiringEnds == pc \in {"cmd", "job_write"} /\ pc' \in {"fire", "sleep"}

\* C10: the end of a firing, whatever the outcome of the command, leaves the
\* process in the loop; the job stays in the active set, with a next-fire-time
\* computed at the end of the firing (for a rule with a positive period, after
\* it), and is not run again in this tick; the other jobs are unchanged.
C10_FiringEndsBackToWaiting ==
    /\ [][(pc = "cmd" /\ pc' # "cmd" /\ fired' # <<>>) =>
             (pc' \in {"job_write", "fire", "sleep"} /\ exit' = -1)]_vars
    /\ [][FiringEnds =>
             /\ exit' = -1
             /\ Len(jobs') = Len(jobs)
             /\ \A k \in 1..Len(jobs) : k # Head(pend) => jobs'[k] = jobs[k]
             /\ jobs'[Head(pend)].last_run = <<now'>>
             /\ jobs[Head(pend)].interval > 0 => jobs'[Head(pend)].next_run > now'
             /\ jobs[Head(pend)].at_time = <<>> =>
                   jobs'[Head(pend)].next_run = now' + 60 * jobs[Head(pend)].interval
             /\ pend' = Tail(pend)
             /\ \A k \in 1..Len(pend') : pend'[k] # Head(pend)]_vars

\* in one tick a command has exited with a non-zero status, the next one
\* could not be run at all, and the loop goes on
C10_Witness ==
    /\ pc \in {"fire", "sleep"}
    /\ Len(fired) >= 2
    /\ fired[1].outcome = "exit1"
    /\ fired[2].outcome = "raise"

\* task.get('last_run'): null when the key is absent
LastRun(t) == IF "last_run" \in DOMAIN t THEN t.last_run ELSE None

\* the positions of the loop between two firings and between two ticks
BetweenFirings == pc \in {"poll", "fire", "sleep"}

\* C11: last_run of a task changes only in the step in which the command of
\* a firing of that task ends with an exit status, and then to a timestamp
\* not earlier than the start of the firing; it is never set back to null;
\* and between firings every last_run that is set is in the stored list.
C11_LastRunSetByFiringOnly ==
    /\ [](BetweenFirings =>
            \A i \in 1..Len(tasks) :
               LastRun(tasks[i]) # None =>
                  /\ LoadTasks(file).ok
                  /\ i <= Len(LoadTasks(file).val)
                  /\ LastRun(LoadTasks(file).val[i]) = LastRun(tasks[i]))
    /\ [][pc' # "dead" =>
            \A i \in 1..Len(tasks) :
               /\ i <= Len(tasks')
               /\ LastRun(tasks[i]) # None => LastRun(tasks'[i]) # None
               /\ LastRun(tasks'[i]) # LastRun(tasks[i]) =>
                     /\ pc = "cmd"
                     /\ jobs[Head(pend)].task = i
                     /\ fired'[Len(fired)].outcome \in {"exit0", "exit1"}
                     /\ LastRun(tasks'[i]).iso >= now]_vars
    /\ [][(pc = "cmd" /\ pc' = "job_write") =>
            /\ LastRun(tasks'[jobs[Head(pend)].task]) # None
            /\ LastRun(tasks'[jobs[Head(pend)].task]).iso >= now
            /\ LastRun(tasks'[jobs[Head(pend)].task]).iso = now']_vars

\* the loop is about to poll again after a firing whose command exited with
\* a non-zero status, and the last_run it set is in the file
C11_Witness ==
    /\ pc = "sleep"
    /\ \E f \in 1..Len(fired) :
          /\ fired[f].outcome = "exit1"
          /\ LastRun(tasks[jobs[fired[f].job].task]) = Iso(now)
          /\ LastRun(LoadTasks(file).val[jobs[fired[f].job].task]) = Iso(now)

\* the positions inside the while True loop of run
InLoop == pc \in {"poll", "fire", "cmd", "job_write", "sleep"}

\* C12: the script leaves the loop only when the process is ended from
\* outside, never through the outcome of a firing; an interrupt, wherever in
\* the loop it arrives, ends the process with status 0 and no exception (137
\* is the status of a process that was killed).
C12_LoopExitsOnlyOnInterrupt ==
    [][(mode = "script" /\ InLoop /\ ~InLoop') =>
          (pc' = "dead" /\ err' = "" /\ exit' \in {0, 137})]_vars

\* the script was interrupted while a firing was saving the task list, and
\* ended with status 0
C12_Witness ==
    /\ mode = "script"
    /\ pc = "dead"
    /\ exit = 0
    /\ fires >= 1
    /\ file = Partial

\* C13: the next_run of a job, when it was computed at registration or at
\* the end of a firing, is later than the clock at that moment.
C13_NextRunAfterNow ==
    pc = "waiting" => jobs[1].next_run > now

\* seconds since midnight of "HH:MM"
HHMMSeconds(s) == DecVal(SubSeq(s, 1, 2)) * 3600 + DecVal(SubSeq(s, 4, 5)) * 60

\* the length in seconds of the cycle of an hourly, daily or weekly rule
NamedPeriod(t) ==
    CASE t.schedule_type = "hourly" -> 3600
      [] t.schedule_type = "daily"  -> 86400
      [] t.schedule_type = "weekly" -> 604800

\* the second of its cycle the rule of task t names: the minute of the hour,
\* the time of the day, or the weekday (in any case of letters) and the time
NamedOffset(t) ==
    CASE t.schedule_type = "hourly" -> DecVal(t.schedule_time) * 60
      [] t.schedule_type = "daily"  -> HHMMSeconds(t.schedule_time)
      [] t.schedule_type = "weekly" ->
            ((CHOOSE d \in 1..7 : Weekdays[d] = Lower(SplitBlank(t.schedule_time)[1])) - 1) * 86400
               + HHMMSeconds(SplitBlank(t.schedule_time)[2])

\* the first occurrence of the rule of task t later than the clock ref
Soonest(t, ref) ==
    LET r == (NamedOffset(t) - ref) % NamedPeriod(t)
    IN  ref + (IF r = 0 THEN NamedPeriod(t) ELSE r)

\* C14: for an hourly, daily or weekly rule the next_run computed at
\* registration and at the end of each firing is the first occurrence of the
\* named minute, time, or weekday and time after the clock at that moment.
C14_NextRunIsSoonestOccurrence ==
    (pc = "waiting" /\ tasks[1].schedule_type \in {"hourly", "daily", "weekly"}) =>
        jobs[1].next_run = Soonest(tasks[1], now)

\* an hourly job whose command took more than an hour has its next run
\* within the hour that follows the end of the command
C14_Witness ==
    /\ pc = "waiting"
    /\ tasks[1].schedule_type = "hourly"
    /\ fired # <<>>
    /\ now - fired[Len(fired)].start = 4000
    /\ jobs[1].next_run > now
    /\ jobs[1].next_run - now < 3600

\* the seconds of the N minutes of the interval rule of task t
IntervalSeconds(t) == 60 * DecVal(t.schedule_time)

\* C15, as stated: the first next_run of an interval job is the clock at
\* registration plus N minutes, and each later next_run is the previous one
\* plus N minutes.
C15_IntervalSpacingExact ==
    (pc = "waiting" /\ tasks[1].schedule_type = "interval") =>
        IF fired = <<>>
        THEN jobs[1].next_run = now + IntervalSeconds(tasks[1])
        ELSE jobs[1].next_run = fired[Len(fired)].due + IntervalSeconds(tasks[1])

\* C15, amended: the first next_run of an interval job is the clock at
\* registration plus N minutes, and each later next_run is the clock at the
\* end of the previous firing plus N minutes: it follows the previous
\* next_run by N minutes, the delay of the pickup and the time of the command.
C15_IntervalFromEndOfFiring ==
    (pc = "waiting" /\ tasks[1].schedule_type = "interval") =>
        /\ jobs[1].next_run = now + IntervalSeconds(tasks[1])
        /\ fired # <<>> =>
              /\ jobs[1].next_run - fired[Len(fired)].due >= IntervalSeconds(tasks[1])
              /\ jobs[1].next_run - fired[Len(fired)].due =
                    IntervalSeconds(tasks[1])
                       + (fired[Len(fired)].start - fired[Len(fired)].due)
                       + (now - fired[Len(fired)].start)

\* an every-60-minutes job picked up 45 seconds late whose command took 150
\* seconds: the next run is 60 minutes and 195 seconds after the previous one
C15_Witness ==
    /\ pc = "waiting"
    /\ tasks[1].schedule_type = "interval"
    /\ fired # <<>>
    /\ IntervalSeconds(tasks[1]) = 3600
    /\ jobs[1].next_run - fired[Len(fired)].due = 3600 + 45 + 150

\* the indices schedule.jobs can have when the script runs a stored list:
\* the longest one is as long as EXAMPLE_TASKS
JobSlots == 1..Len(EXAMPLE_TASKS)

\* a tick is about to start with job k runnable, and the model has room for
\* the tick and for the commands of all the runnable jobs
DueAtTick(k) ==
    /\ pc = "poll"
    /\ k <= Len(jobs)
    /\ now >= jobs[k].next_run
    /\ ticks < MaxTicks
    /\ fires + Cardinality(Runnable(jobs, now)) <= MaxFires

\* job k has been run in the current tick: its command was started once and
\* has ended, and the job is not among those still to run
FiredInTick(k) ==
    /\ pc \in {"fire", "sleep"}
    /\ k <= Len(jobs)
    /\ Cardinality({f \in 1..Len(fired) : fired[f].job = k}) = 1
    /\ \A f \in 1..Len(fired) : fired[f].job = k => fired[f].outcome # "running"
    /\ \A p \in 1..Len(pend) : pend[p] # k
    /\ jobs[k].last_run # <<>>

\* C16: when no signal arrives and every command ends, a job that is
\* runnable when a tick starts is run in that tick, once, and is then
\* waiting again; no job is run twice in one tick.
C16_DueJobsAreFired ==
    /\ \A k \in JobSlots : DueAtTick(k) ~> FiredInTick(k)
    /\ [](\A f, g \in 1..Len(fired) : f # g => fired[f].job # fired[g].job)

\* a tick in which two jobs were runnable has run both and the loop sleeps
C16_Witness ==
    /\ pc = "sleep"
    /\ pend = <<>>
    /\ Len(fired) = 2
    /\ FiredInTick(fired[1].job)
    /\ FiredInTick(fired[2].job)

\* schedule_task raises for task t: its rule fails the validation of the
\* registration
Rejected(t) == ScheduleTask(t, 1, now).res = "error"

\* the exceptions schedule_task raises
RegistrationErrors == {"ValueError", "ScheduleValueError", "AttributeError"}

\* C17: while the task list holds an enabled task whose registration raises,
\* the process is never in the loop; when run reaches such a task the
\* process ends there; and a process ended by a registration error has a
\* non-zero status and has run no tick and no command.
C17_InvalidRuleIsFatalAtStartup ==
    /\ [](InLoop => \A i \in 1..Len(tasks) : ~(IsEnabled(tasks[i]) /\ Rejected(tasks[i])))
    /\ []((pc = "dead" /\ err \in RegistrationErrors) =>
             (exit > 0 /\ execd = {} /\ ticks = 0 /\ fires = 0))
    /\ [][(pc = "startup" /\ cur <= Len(tasks)
              /\ IsEnabled(tasks[cur]) /\ Rejected(tasks[cur])) => pc' = "dead"]_vars

\* run ended with the error of a task that an add_task call, which failed
\* with the same error, had left in the list
C17_Witness ==
    /\ pc = "dead"
    /\ err = "ScheduleValueError"
    /\ exit = 1
    /\ adds >= 1
    /\ cur = Len(tasks)
    /\ Rejected(tasks[cur])
    /\ jobs # <<>>

\* the jobs of schedule.jobs that run the task at index i
JobsOf(i) == {k \in 1..Len(jobs) : jobs[k].task = i}

\* C18: no task of the list has more than one job in schedule.jobs.
C18_OneJobPerTask ==
    \A i \in 1..Len(tasks) : Cardinality(JobsOf(i)) <= 1

\* tasks a and b have the same keys and values, last_run aside
SameButLastRun(a, b) ==
    /\ DOMAIN a \ {"last_run"} = DOMAIN b \ {"last_run"}
    /\ \A k \in DOMAIN a \ {"last_run"} : a[k] = b[k]

\* C19: when a firing starts the file holds the list in memory; the end of
\* the command changes nothing in the list in memory but the last_run of
\* the task fired, and nothing at all, in memory and in the file, when
\* subprocess.run raised; and the save that ends the firing leaves the list
\* in memory as it is and the file holding that list.
C19_FiringChangesOnlyLastRun ==
    /\ [](pc \in {"fire", "cmd"} =>
            (LoadTasks(file).ok /\ LoadTasks(file).val = tasks))
    /\ [][(pc = "cmd" /\ pc' \notin {"cmd", "dead"}) =>
            /\ Len(tasks') = Len(tasks)
            /\ \A i \in 1..Len(tasks) :
                  /\ SameButLastRun(tasks[i], tasks'[i])
                  /\ i # jobs[Head(pend)].task => tasks'[i] = tasks[i]
            /\ fired'[Len(fired)].outcome = "raise" => (tasks' = tasks /\ file' = file)]_vars
    /\ [][(pc = "job_write" /\ pc' # "dead") =>
            /\ tasks' = tasks
            /\ LoadTasks(file').ok
            /\ LoadTasks(file').val = tasks]_vars

\* one tick has fired two tasks: the command of the first exited and its
\* last_run is set, the command of the second raised and its last_run is
\* null, and the file holds the list in memory
C19_Witness ==
    /\ pc \in {"fire", "sleep"}
    /\ Len(fired) >= 2
    /\ fired[1].outcome = "exit0"
    /\ fired[2].outcome = "raise"
    /\ LastRun(tasks[jobs[fired[1].job].task]) # None
    /\ LastRun(tasks[jobs[fired[2].job].task]) = None
    /\ file = Written(tasks)

====
